---- MODULE Spec2Model ----
(***************************************************************************)
(* Line segmentation by horizontal projection (app/line_segmenter.py) and  *)
(* the per-line recognition loop built on it (app/trocr_engine.py).        *)
(*                                                                         *)
(* A page is a grayscale pixel grid.  Rows and columns are indexed from 0, *)
(* as in the source; a bounding box is the tuple <<x1, y1, x2, y2>>.       *)
(***************************************************************************)
EXTENDS Integers, Sequences, FiniteSets, TLC

\* ------------------------------------------------------------------ bounds
\* Largest page height explored.
MaxH == 8
\* Largest number of pixels (height * width) of an explored black and white
\* or uniform page, and of an explored page of three grey levels.
MaxPixels == 8
MaxGrayPixels == 6
\* Pages made of one ink bar per row: largest height and width.
MaxBarH == 2
MaxBarW == 11
\* ocr_pages: longest page list, longest decoded text.
MaxPages == 2
MaxTextLen == 1

\* --------------------------------------------------------------- constants
\* pad = 3 (rows of padding above and below a detected run).
pad == 3
\* maxval argument of cv2.threshold: the value of an ink pixel in the mask.
maxval == 255

\* Grey levels of the non-uniform pages explored (8-bit values).
GrayLevels == {0, 128, 255}
BlackWhite == {0, 255}
\* Every 8-bit grey level; uniform pages are explored for each of them.
AllLevels == 0..255

Max(a, b) == IF a >= b THEN a ELSE b
Min(a, b) == IF a <= b THEN a ELSE b

RECURSIVE SumTo(_, _)
\* f[0] + ... + f[n-1]
SumTo(f, n) == IF n = 0 THEN 0 ELSE f[n - 1] + SumTo(f, n - 1)

\* ------------------------------------------------------------------- pages
\* A page of height h and width w whose pixels are drawn from levels.
PagesOf(h, w, levels) ==
    { [height |-> h, width |-> w, px |-> p] :
        p \in [0..(h - 1) -> [0..(w - 1) -> levels]] }

\* A page whose pixels all have grey level v.
UniformPage(h, w, v) ==
    [height |-> h, width |-> w, px |-> [r \in 0..(h - 1) |-> [c \in 0..(w - 1) |-> v]]]

\* The page sizes <<H, W>> of at most n pixels: 1 <= H <= MaxH, W >= 1.
Sizes(n) == { hw \in (1..MaxH) \X (1..n) : hw[1] * hw[2] <= n }

\* A page whose row r starts with k[r] black pixels, the rest white: rows of
\* every ink density from 0 to w.
BarPage(h, w, k) ==
    [height |-> h, width |-> w,
     px |-> [r \in 0..(h - 1) |-> [c \in 0..(w - 1) |-> IF c < k[r] THEN 0 ELSE 255]]]

BarPages ==
    UNION { { BarPage(h, w, k) : k \in [0..(h - 1) -> 0..w] } :
                h \in 1..MaxBarH, w \in 1..MaxBarW }

\* page.crop((0, y1, page.width, y2)): rows y1 .. y2-1, every column; a row
\* outside the page, were one asked for, is filled with 0.
Crop(pg, y1, y2) ==
    [height |-> y2 - y1, width |-> pg.width,
     px |-> [r \in 0..(y2 - y1 - 1) |->
                IF y1 + r \in 0..(pg.height - 1) THEN pg.px[y1 + r]
                ELSE [c \in 0..(pg.width - 1) |-> 0]]]

\* ------------------------------------------------- binarization (line 26)
\* Pixels of the page with grey level at most t, and the sum of their levels.
CountLE(pg, t) ==
    SumTo([r \in 0..(pg.height - 1) |->
             Cardinality({c \in 0..(pg.width - 1) : pg.px[r][c] <= t})], pg.height)

RECURSIVE RowLevelSum(_, _, _, _)
RowLevelSum(pg, r, n, t) ==
    IF n = 0 THEN 0
    ELSE (IF pg.px[r][n - 1] <= t THEN pg.px[r][n - 1] ELSE 0) + RowLevelSum(pg, r, n - 1, t)

SumLE(pg, t) ==
    SumTo([r \in 0..(pg.height - 1) |-> RowLevelSum(pg, r, pg.width, t)], pg.height)

\* The levels that occur in the page.
LevelsIn(pg) == { pg.px[r][c] : r \in 0..(pg.height - 1), c \in 0..(pg.width - 1) }

RECURSIVE Gcd(_, _)
Gcd(a, b) == IF b = 0 THEN a ELSE Gcd(b, a % b)

RECURSIVE SetGcd(_)
SetGcd(S) == IF S = {} THEN 0
             ELSE LET x == CHOOSE y \in S : TRUE IN Gcd(x, SetGcd(S \ {x}))

\* The unit the grey levels of the page are counted in: their common divisor.
LevelUnit(pg) == Max(1, SetGcd(LevelsIn(pg)))

\* Otsu's between-class variance of the split {level <= t} / {level > t}, as
\* the exact fraction <<numerator, denominator>>:
\*   q1*q2*(mu1 - mu2)^2 = (s1*n2 - s2*n1)^2 / (N^2 * n1 * n2),
\* with the level sums s1, s2 counted in units of LevelUnit and without the
\* factor 1/N^2: both scalings are the same for every split of a page, so the
\* order of the variances is kept.  A split with an empty class is skipped
\* by the library (variance 0).
OtsuSigma(pg, t) ==
    LET n  == pg.height * pg.width
        g  == LevelUnit(pg)
        n1 == CountLE(pg, t)
        n2 == n - n1
        s1 == SumLE(pg, t) \div g
        s2 == (SumLE(pg, 255) \div g) - s1
        d  == s1 * n2 - s2 * n1
    IN  IF n1 = 0 \/ n2 = 0 THEN <<0, 1>> ELSE <<d * d, n1 * n2>>

\* a > b for fractions with positive denominators.
FracGT(a, b) == a[1] * b[2] > b[1] * a[2]

\* The threshold chosen by THRESH_OTSU: the first level whose split has the
\* largest positive between-class variance, 0 when no split has two
\* non-empty classes (a uniform page).  The variance changes only at levels
\* that occur in the page, so the first maximiser is one of them.  The
\* variances are compared exactly; the library compares them as doubles.
OtsuThreshold(pg) ==
    LET cand == { t \in LevelsIn(pg) : FracGT(OtsuSigma(pg, t), <<0, 1>>) }
        best == { t \in cand : \A u \in cand : ~FracGT(OtsuSigma(pg, u), OtsuSigma(pg, t)) }
    IN  IF best = {} THEN 0
        ELSE CHOOSE t \in best : \A u \in best : t <= u

\* THRESH_BINARY_INV: a pixel above the threshold becomes 0, any other maxval.
ThresholdBinaryInv(pg, t) ==
    [r \in 0..(pg.height - 1) |->
        [c \in 0..(pg.width - 1) |-> IF pg.px[r][c] > t THEN 0 ELSE maxval]]

\* _, bw = cv2.threshold(gray, 0, 255, THRESH_BINARY_INV + THRESH_OTSU)
Binarized(pg) == ThresholdBinaryInv(pg, OtsuThreshold(pg))

\* ------------------------------------------------ projection (lines 29-33)
\* projection = bw.sum(axis=1)
Projection(mask, h, w) == [r \in 0..(h - 1) |-> SumTo(mask[r], w)]

\* projection.max()
ProjMax(proj, h) == CHOOSE m \in { proj[r] : r \in 0..(h - 1) } :
                        \A r \in 0..(h - 1) : proj[r] <= m

\* Variant: a fixed offset added to the relative threshold (max * 0.1 + 1).
Thresh_offset(proj, h) == <<ProjMax(proj, h) + 10, 10>>

\* thresh = projection.max() * 0.1, kept as the exact fraction <<num, den>>.
\* The double max * 0.1 is within half an ulp above max / 10 and rounds to it
\* when max / 10 is an integer, so an integer density exceeds the one exactly
\* when it exceeds the other.
Thresh(proj, h) == <<ProjMax(proj, h), 10>>

\* Variant: the comparison written >= instead of >.
IsTextRow_ge(p, t) == p * t[2] >= t[1]

\* projection > thresh for one row (strict comparison with the fraction).
IsTextRow(p, t) == p * t[2] > t[1]

\* is_text_row = projection > thresh
TextRows(proj, t, h) == [r \in 0..(h - 1) |-> IsTextRow(proj[r], t)]

\* ------------------------------------------------------ scan (lines 35-59)
\* Variant: abs() in place of the clamp at the top edge.
Y1_abs(s) == IF s >= pad THEN s - pad ELSE pad - s

\* y1 = max(0, start_row - pad)
Y1(s) == Max(0, s - pad)

\* Variants: the clamp at the bottom edge forgotten; the pad applied twice.
Y2_unclamped(e, h) == e + pad
Y2_wide(e, h) == Min(h, e + pad + pad)

\* y2 = min(gray.shape[0], end_row + pad)
Y2(e, h) == Min(h, e + pad)

\* LineImage(image=page.crop((0, y1, page.width, y2)), bbox=(0, y1, page.width, y2))
LineImage(pg, y1, y2) == [image |-> Crop(pg, y1, y2), bbox |-> <<0, y1, pg.width, y2>>]

\* The scanner's state before the loop.
ScanInit == [in_line |-> FALSE, start_row |-> 0, lines |-> <<>>, runs |-> <<>>]

\* Variant: the closing branch forgets `in_line = False`.
ScanStep_noreset(st, i, flag, pg) ==
    IF flag /\ ~st.in_line
    THEN [st EXCEPT !.in_line = TRUE, !.start_row = i]
    ELSE IF ~flag /\ st.in_line
    THEN [st EXCEPT !.lines = Append(@, LineImage(pg, Y1(st.start_row), Y2(i, pg.height))),
                    !.runs = Append(@, <<st.start_row, i>>)]
    ELSE st

\* One iteration of `for i, flag in enumerate(is_text_row)`.  runs records
\* the unpadded rows [start_row, end_row) behind each emitted region.
ScanStep(st, i, flag, pg) ==
    IF flag /\ ~st.in_line
    THEN [st EXCEPT !.in_line = TRUE, !.start_row = i]
    ELSE IF ~flag /\ st.in_line
    THEN LET end_row == i
         IN  [st EXCEPT !.in_line = FALSE,
                        !.lines = Append(@, LineImage(pg, Y1(st.start_row), Y2(end_row, pg.height))),
                        !.runs = Append(@, <<st.start_row, end_row>>)]
    ELSE st

\* Variants: the tail rule left out; the tail region stopping one row short.
TailStep_none(st, pg) == st
TailStep_short(st, pg) ==
    IF st.in_line
    THEN [st EXCEPT !.lines = Append(@, LineImage(pg, Y1(st.start_row), pg.height - 1)),
                    !.runs = Append(@, <<st.start_row, pg.height>>)]
    ELSE st

\* `if in_line:` after the loop: the run that reaches the bottom of the page.
TailStep(st, pg) ==
    IF st.in_line
    THEN [st EXCEPT !.lines = Append(@, LineImage(pg, Y1(st.start_row), pg.height)),
                    !.runs = Append(@, <<st.start_row, pg.height>>)]
    ELSE st

RECURSIVE ScanRows(_, _, _, _, _)
\* The loop from row i to row n-1 over the flags.
ScanRows(st, i, n, flags, pg) ==
    IF i >= n THEN st ELSE ScanRows(ScanStep(st, i, flags[i], pg), i + 1, n, flags, pg)

\* segment_lines(page) as a function of the page.
SegmentLines(pg) ==
    LET bwm   == Binarized(pg)
        proj  == Projection(bwm, pg.height, pg.width)
        flags == TextRows(proj, Thresh(proj, pg.height), pg.height)
    IN  TailStep(ScanRows(ScanInit, 0, pg.height, flags, pg), pg).lines

\* ------------------------------------------------------------------- state
VARIABLES
    page,         \* the argument of segment_lines
    pc,           \* where segment_lines stands
    bw,           \* the binary ink mask
    projection,   \* ink per row
    thresh,       \* the fraction <<num, den>>
    is_text_row,  \* the flag of each row
    i,            \* the row the loop is about to read
    in_line,
    start_row,
    lines,        \* the regions emitted so far
    runs          \* the unpadded rows behind each emitted region

segVars == <<page, pc, bw, projection, thresh, is_text_row, i, in_line, start_row, lines, runs>>

VARIABLES
    pages,         \* the argument of ocr_pages
    opc,           \* where ocr_pages stands
    page_index,    \* the number of the page at hand (0 before the first)
    line_imgs,     \* segment_lines(page) for the page at hand
    line_pos,      \* how many of line_imgs the inner loop has consumed
    line_results,  \* the lines kept for the page at hand
    out,           \* the page entries appended so far
    texts          \* per page, the text _recognize_line returned for each region

ocrVars == <<pages, opc, page_index, line_imgs, line_pos, line_results, out, texts>>

vars == <<segVars, ocrVars>>

H == page.height
W == page.width

\* ocr_pages is not running.
OcrIdle ==
    /\ pages = <<>>
    /\ opc = "idle"
    /\ page_index = 0
    /\ line_imgs = <<>>
    /\ line_pos = 0
    /\ line_results = <<>>
    /\ out = <<>>
    /\ texts = <<>>

Init ==
    /\ OcrIdle
    /\ page \in UNION { PagesOf(hw[1], hw[2], GrayLevels) : hw \in Sizes(MaxGrayPixels) }
                \cup UNION { PagesOf(hw[1], hw[2], BlackWhite) : hw \in Sizes(MaxPixels) }
                \cup { UniformPage(hw[1], hw[2], v) : hw \in Sizes(MaxPixels), v \in AllLevels }
                \cup BarPages
    /\ pc = "binarize"
    /\ bw = <<>>
    /\ projection = <<>>
    /\ thresh = <<0, 10>>
    /\ is_text_row = <<>>
    /\ i = 0
    /\ in_line = FALSE
    /\ start_row = 0
    /\ lines = <<>>
    /\ runs = <<>>

\* gray = np.array(page.convert("L")); _, bw = cv2.threshold(...)
Binarize ==
    /\ pc = "binarize"
    /\ bw' = Binarized(page)
    /\ pc' = "project"
    /\ UNCHANGED <<page, projection, thresh, is_text_row, i, in_line, start_row, lines, runs>>
    /\ UNCHANGED ocrVars

\* projection, thresh, is_text_row
Project ==
    /\ pc = "project"
    /\ projection' = Projection(bw, H, W)
    /\ thresh' = Thresh(projection', H)
    /\ is_text_row' = TextRows(projection', thresh', H)
    /\ pc' = "scan"
    /\ UNCHANGED <<page, bw, i, in_line, start_row, lines, runs>>
    /\ UNCHANGED ocrVars

\* one iteration of the for loop
ScanRow ==
    /\ pc = "scan"
    /\ i < H
    /\ LET st == ScanStep([in_line |-> in_line, start_row |-> start_row,
                           lines |-> lines, runs |-> runs], i, is_text_row[i], page)
       IN  /\ in_line' = st.in_line
           /\ start_row' = st.start_row
           /\ lines' = st.lines
           /\ runs' = st.runs
    /\ i' = i + 1
    /\ UNCHANGED <<page, pc, bw, projection, thresh, is_text_row>>
    /\ UNCHANGED ocrVars

\* the loop is exhausted: the tail rule, then return lines
TailRule ==
    /\ pc = "scan"
    /\ i = H
    /\ LET st == TailStep([in_line |-> in_line, start_row |-> start_row,
                           lines |-> lines, runs |-> runs], page)
       IN  /\ lines' = st.lines
           /\ runs' = st.runs
    /\ pc' = "done"
    /\ UNCHANGED <<page, bw, projection, thresh, is_text_row, i, in_line, start_row>>
    /\ UNCHANGED ocrVars

Next == Binarize \/ Project \/ ScanRow \/ TailRule

Spec == Init /\ [][Next]_vars


\* --------------------------------------- ocr_pages (trocr_engine.py 47-72)
\* The characters of a decoded text: a blank and a letter.
Chars == {" ", "a"}

\* What batch_decode can give for a crop: any text of at most MaxTextLen
\* characters (the recognizer is an external model).
DecodedTexts == UNION { [1..n -> Chars] : n \in 0..MaxTextLen }

RECURSIVE LStrip(_)
LStrip(t) == IF t # <<>> /\ Head(t) = " " THEN LStrip(Tail(t)) ELSE t

RECURSIVE RStrip(_)
RStrip(t) == IF t # <<>> /\ t[Len(t)] = " " THEN RStrip(SubSeq(t, 1, Len(t) - 1)) ELSE t

\* text.strip()
Strip(t) == RStrip(LStrip(t))

\* _recognize_line(img), given the text the model decoded for img
RecognizeLine(decoded) == Strip(decoded)

\* {"bbox": {"x1": x1, "y1": y1, "x2": x2, "y2": y2}, "text": text}
LineResult(line, text) ==
    [bbox |-> [x1 |-> line.bbox[1], y1 |-> line.bbox[2], x2 |-> line.bbox[3], y2 |-> line.bbox[4]],
     text |-> text]

\* Variant: the `if not text: continue` left out.
AddLine_keepEmpty(results, line, text) == Append(results, LineResult(line, text))

\* The body of `for line in line_imgs` once the text is known.
AddLine(results, line, text) ==
    IF text = <<>> THEN results ELSE Append(results, LineResult(line, text))

\* {"page": page_index, "lines": line_results}
PageEntry(idx, results) == [page |-> idx, lines |-> results]

\* The pages ocr_pages is run on: black and white pages of one column and
\* three rows, which hold no, one or two lines.
OcrPageSet == PagesOf(3, 1, BlackWhite)

\* segment_lines is not running.
SegIdle ==
    /\ page = [height |-> 0, width |-> 0, px |-> <<>>]
    /\ pc = "idle"
    /\ bw = <<>>
    /\ projection = <<>>
    /\ thresh = <<0, 10>>
    /\ is_text_row = <<>>
    /\ i = 0
    /\ in_line = FALSE
    /\ start_row = 0
    /\ lines = <<>>
    /\ runs = <<>>

InitOcr ==
    /\ SegIdle
    /\ pages \in UNION { [1..n -> OcrPageSet] : n \in 0..MaxPages }
    /\ opc = "page_loop"
    /\ page_index = 0
    /\ line_imgs = <<>>
    /\ line_pos = 0
    /\ line_results = <<>>
    /\ out = <<>>
    /\ texts = <<>>

\* for page_index, page in enumerate(pages, start=1): segment the page
StartPage ==
    /\ opc = "page_loop"
    /\ page_index < Len(pages)
    /\ page_index' = page_index + 1
    /\ line_imgs' = SegmentLines(pages[page_index + 1])
    /\ line_results' = <<>>
    /\ line_pos' = 0
    /\ texts' = Append(texts, <<>>)
    /\ opc' = "line_loop"
    /\ UNCHANGED <<pages, out>>
    /\ UNCHANGED segVars

\* for line in line_imgs: recognize the crop, keep the line unless empty
RecognizeOne ==
    /\ opc = "line_loop"
    /\ line_pos < Len(line_imgs)
    /\ \E decoded \in DecodedTexts :
          LET text == RecognizeLine(decoded)
          IN  /\ line_results' = AddLine(line_results, line_imgs[line_pos + 1], text)
              /\ texts' = [texts EXCEPT ![page_index] = Append(@, text)]
    /\ line_pos' = line_pos + 1
    /\ UNCHANGED <<pages, opc, page_index, line_imgs, out>>
    /\ UNCHANGED segVars

\* out.append({"page": page_index, "lines": line_results})
FinishPage ==
    /\ opc = "line_loop"
    /\ line_pos = Len(line_imgs)
    /\ out' = Append(out, PageEntry(page_index, line_results))
    /\ opc' = "page_loop"
    /\ UNCHANGED <<pages, page_index, line_imgs, line_pos, line_results, texts>>
    /\ UNCHANGED segVars

\* return out
ReturnOut ==
    /\ opc = "page_loop"
    /\ page_index = Len(pages)
    /\ opc' = "done"
    /\ UNCHANGED <<pages, page_index, line_imgs, line_pos, line_results, out, texts>>
    /\ UNCHANGED segVars

NextOcr == StartPage \/ RecognizeOne \/ FinishPage \/ ReturnOut

SpecOcr == InitOcr /\ [][NextOcr]_vars

\* ------------------------------------------------------ segment_lines: claims
Scanned == pc \in {"scan", "done"}
Done == pc = "done"

\* the mask has no ink pixel
NoInk == \A r \in 0..(H - 1) : \A c \in 0..(W - 1) : bw[r][c] = 0

\* the number of ink pixels of each row of the mask
InkCount == [r \in 0..(H - 1) |-> Cardinality({ c \in 0..(W - 1) : bw[r][c] # 0 })]

\* the flags a density signal d yields
FlagsOf(d) == TextRows(d, Thresh(d, H), H)

\* the maximal runs [s, e) of true flags, read off the flag sequence
MaxRuns ==
    { se \in (0..(H - 1)) \X (1..H) :
        /\ se[1] < se[2]
        /\ \A q \in se[1]..(se[2] - 1) : is_text_row[q]
        /\ (se[1] = 0 \/ ~is_text_row[se[1] - 1])
        /\ (se[2] = H \/ ~is_text_row[se[2]]) }

\* C1: every region emitted so far, by a closing transition or by the tail
\* rule, has x1 = 0, x2 = W and 0 <= y1 < y2 <= H.
C1_BboxWithinPage ==
    \A k \in 1..Len(lines) :
        LET b == lines[k].bbox
        IN  b[1] = 0 /\ b[3] = W /\ 0 <= b[2] /\ b[2] < b[4] /\ b[4] <= H

\* a finished scan that emitted a region clamped at the top by a closing
\* transition and another by the tail rule
C1_Witness ==
    /\ Done /\ in_line /\ Len(lines) >= 2
    /\ lines[1].bbox[2] = 0 /\ runs[1][1] < pad

\* C2 as stated: consecutive regions have strictly increasing y1.
C2_StrictlyIncreasingY1 ==
    \A k \in 1..(Len(lines) - 1) : lines[k].bbox[2] < lines[k + 1].bbox[2]

\* C2 as amended: y1 never decreases; it increases strictly when the later
\* run starts below row 3, and both y1 are 0 when the later run starts in
\* rows 0..3.
C2_NonDecreasingY1 ==
    \A k \in 1..(Len(lines) - 1) :
        LET a == lines[k].bbox[2]
            b == lines[k + 1].bbox[2]
        IN  /\ a <= b
            /\ runs[k + 1][1] > 3 => a < b
            /\ runs[k + 1][1] <= 3 => (a = 0 /\ b = 0)

\* a result with two regions of equal y1 and two of increasing y1
C2_Witness ==
    /\ Done
    /\ \E k \in 1..(Len(lines) - 1) : lines[k].bbox[2] = lines[k + 1].bbox[2]
    /\ \E k \in 1..(Len(lines) - 1) : lines[k].bbox[2] < lines[k + 1].bbox[2]

\* C3: the unpadded runs of consecutive regions are disjoint (the later
\* start_row is above the earlier end_row) and the padded boxes overlap by at
\* most 6 rows.
C3_RunsDisjointOverlapAtMost6 ==
    \A k \in 1..(Len(lines) - 1) :
        /\ runs[k + 1][1] > runs[k][2]
        /\ lines[k].bbox[4] - lines[k + 1].bbox[2] <= 6

\* two runs one blank row apart, whose padded boxes overlap by 5 rows
C3_Witness ==
    /\ Done
    /\ \E k \in 1..(Len(lines) - 1) :
          /\ runs[k + 1][1] = runs[k][2] + 1
          /\ lines[k].bbox[4] - lines[k + 1].bbox[2] = 5

\* C4: when the last row is flagged the result ends with exactly one region
\* more than the closing transitions emitted, from max(0, start_row - 3) of
\* the open run to H; when it is not flagged there is no such region.
C4_TailRegion ==
    Done =>
        LET closings == Cardinality({ r \in 0..(H - 2) : is_text_row[r] /\ ~is_text_row[r + 1] })
            s == CHOOSE r \in 0..(H - 1) :
                    /\ \A q \in r..(H - 1) : is_text_row[q]
                    /\ (r = 0 \/ ~is_text_row[r - 1])
        IN  IF is_text_row[H - 1]
            THEN /\ Len(lines) = closings + 1
                 /\ \A k \in 1..closings : runs[k][2] < H
                 /\ lines[Len(lines)].bbox = <<0, Max(0, s - 3), W, H>>
            ELSE /\ Len(lines) = closings
                 /\ \A k \in 1..closings : runs[k][2] < H

\* a tail region below a closed one, starting below the top padding
C4_Witness ==
    /\ Done /\ is_text_row[H - 1] /\ Len(lines) >= 2
    /\ lines[Len(lines)].bbox[2] > 0
    /\ lines[Len(lines)].bbox[4] = H

\* C5: with no ink pixel in the mask the threshold is 0, no row is flagged,
\* the scan stays out of a line and no region is emitted.
C5_NoInkNoRegions ==
    (Scanned /\ NoInk) =>
        /\ thresh[1] = 0
        /\ \A r \in 0..(H - 1) : ~is_text_row[r]
        /\ ~in_line
        /\ lines = <<>>

\* a finished scan of an inkless page of several rows
C5_Witness == Done /\ NoInk /\ H >= 2 /\ lines = <<>>

\* C6 as stated: a uniform page, whatever its grey level, yields no region.
C6_UniformPageNoRegions ==
    (Done /\ Cardinality(LevelsIn(page)) = 1) => lines = <<>>

\* C7: the flags, and with them the regions, are those of the ink-pixel
\* count scaled by any positive constant.
C7_ScaleInvariant ==
    Scanned =>
        /\ \A k \in {1, 2, 3, 255} :
              FlagsOf([r \in 0..(H - 1) |-> k * InkCount[r]]) = is_text_row
        /\ Done =>
              lines = TailStep(ScanRows(ScanInit, 0, H, FlagsOf(InkCount), page), page).lines

\* a finished scan with a region and a row that has ink yet is not flagged
C7_Witness ==
    /\ Done /\ lines # <<>>
    /\ \E r \in 0..(H - 1) : InkCount[r] > 0 /\ ~is_text_row[r]

\* C8: one region per maximal run of true flags, in run order; a run [s, e)
\* closed inside the page yields (0, max(0, s - 3), W, min(H, e + 3)).
C8_OneRegionPerRun ==
    Done =>
        /\ Len(lines) = Cardinality(MaxRuns)
        /\ \A se \in MaxRuns :
              LET k == Cardinality({ x \in MaxRuns : x[1] < se[1] }) + 1
              IN  /\ runs[k] = se
                  /\ se[2] < H =>
                        lines[k].bbox = <<0, Max(0, se[1] - 3), W, Min(H, se[2] + 3)>>

\* a run of one row between two unflagged rows, among several regions
C8_Witness ==
    /\ Done /\ Len(lines) >= 2
    /\ \E se \in MaxRuns : se[2] = se[1] + 1 /\ se[1] >= 1 /\ se[2] < H

\* C10: the result is that of the closing rule alone on the flags with one
\* unflagged row appended at index H.
C10_TailIsClosingAtH ==
    Done =>
        lines = ScanRows(ScanInit, 0, H + 1,
                         [r \in 0..H |-> r < H /\ is_text_row[r]], page).lines

\* a tail region that starts below the top padding, after another region
C10_Witness ==
    /\ Done /\ in_line /\ Len(lines) >= 2
    /\ start_row > pad
    /\ lines[Len(lines)].bbox = <<0, start_row - pad, W, H>>


\* --------------------------------------------------------- ocr_pages: claims
RECURSIVE KeptLines(_, _, _)
\* the regions from the k-th on whose text ts[k] is not empty, as line records
KeptLines(regions, ts, k) ==
    IF k > Len(regions) THEN <<>>
    ELSE IF ts[k] = <<>> THEN KeptLines(regions, ts, k + 1)
    ELSE <<[bbox |-> [x1 |-> regions[k].bbox[1], y1 |-> regions[k].bbox[2],
                      x2 |-> regions[k].bbox[3], y2 |-> regions[k].bbox[4]],
            text |-> ts[k]]>> \o KeptLines(regions, ts, k + 1)

====
